---- MODULE Spec2Model ----
(***************************************************************************)
(* Model of the MS5803 pressure sensor driver (SparkFun_MS5803_I2C.cpp).   *)
(* The driver is single threaded and blocking: every public operation     *)
(* (begin, reset, getTemperature, getPressure) is one action that runs the *)
(* whole call, and records in `bus` every primitive the call performed on  *)
(* the two-wire transport and every delay, in program order.               *)
(***************************************************************************)
EXTENDS Integers, Sequences, FiniteSets, TLC

VARIABLES
    i2cPort,              \* _i2cPort: NULLPTR or WIRE
    address,              \* _address
    coefficient,          \* coefficient[0..7], uint16_t
    temperature_actual,   \* _temperature_actual, int32_t
    pressure_actual,      \* _pressure_actual, int32_t
    rxBuffer,             \* receive buffer of the transport
    bus,                  \* transport primitives and delays of the latest call
    call,                 \* the latest call: name, arguments, raw codes, result
    prom,                 \* the sensor's PROM words
    platform,             \* the build: what compiler and target leave open
    shortReads,           \* short deliveries of the transport so far
    memo                  \* history: an earlier getter call and what it gave

vars == <<i2cPort, address, coefficient, temperature_actual, pressure_actual,
          rxBuffer, bus, call, prom, platform, shortReads, memo>>

----------------------------------------------------------------------------
(* Device command set and enumerations (SparkFun_MS5803_I2C.h).            *)

CMD_RESET == 30
CMD_ADC_READ == 0
CMD_ADC_CONV == 64
CMD_PROM == 160

PRESSURE == 0
TEMPERATURE == 16

ADC_256 == 0
ADC_512 == 2
ADC_1024 == 4
ADC_2048 == 6
ADC_4096 == 8

ADDRESS_HIGH == 118
ADDRESS_LOW == 119

Precisions == {ADC_256, ADC_512, ADC_1024, ADC_2048, ADC_4096}
Measurements == {PRESSURE, TEMPERATURE}
Addresses == {ADDRESS_HIGH, ADDRESS_LOW}
Units == {"CELSIUS", "FAHRENHEIT"}

NULLPTR == "nullptr"
WIRE == "Wire"

----------------------------------------------------------------------------
(* Bounds and the environment's value sets.                                *)

\* Most requests, over a whole run, that the transport answers with fewer
\* bytes than were asked for.
MaxShortReads == 1

\* PROM contents of the sensors considered.
PromImages ==
    { <<0, 40000, 40000, 30000, 20000, 30000, 25000, 0>> }

\* Conversion results the sensor may produce, by channel.
AdcCodes ==
    [m \in Measurements |-> IF m = TEMPERATURE THEN {7680000} ELSE {11259375}]

----------------------------------------------------------------------------
(* Fixed-width integers.                                                   *)

uint8(x) == x % 256
uint16(x) == x % 65536

RECURSIVE Pow2Rec(_)
Pow2Rec(n) == IF n = 0 THEN 1 ELSE 2 * Pow2Rec(n - 1)

Pow2Table == [n \in 0..30 |-> Pow2Rec(n)]

Pow2(n) == Pow2Table[n]

\* a | b on non-negative operands, a byte at a time
RECURSIVE BitOr(_, _)
BitOr(a, b) ==
    IF a = 0 THEN b
    ELSE IF b = 0 THEN a
    ELSE IF a % 256 = 0 \/ b % 256 = 0
         THEN (a % 256) + (b % 256) + 256 * BitOr(a \div 256, b \div 256)
    ELSE (IF a % 2 = 1 \/ b % 2 = 1 THEN 1 ELSE 0) + 2 * BitOr(a \div 2, b \div 2)

\* The n bytes of v, most significant first.
BytesOf(v, n) == [k \in 1..n |-> (v \div Pow2(8 * (n - k))) % 256]

----------------------------------------------------------------------------
(* The transport (TwoWire) and the delay primitive, as the driver uses     *)
(* them.  An event is one primitive performed, with its arguments.         *)

Ev(op, a, b) == [op |-> op, a |-> a, b |-> b]

\* read(): the next byte of the receive buffer, -1 when it is empty.
WireRead(rx) ==
    IF rx = <<>> THEN [val |-> -1, rx |-> rx]
    ELSE [val |-> Head(rx), rx |-> Tail(rx)]

\* available(): bytes left in the receive buffer.
WireAvailable(rx) == Len(rx)

\* sensorWait(time)
sensorWait(time) == << Ev("delay", time, 0) >>

\* sendCommand(command) that leaves the transmission open
sendCommandUnterminated(port, addr, command) ==
    IF port = NULLPTR THEN <<>>
    ELSE << Ev("beginTransmission", addr, 0),
            Ev("write", uint8(command), 0) >>

\* sendCommand(command)
sendCommand(port, addr, command) ==
    IF port = NULLPTR THEN <<>>
    ELSE << Ev("beginTransmission", addr, 0),
            Ev("write", uint8(command), 0),
            Ev("endTransmission", 0, 0) >>

\* reset() that waits a shorter time
resetShortWait(port, addr) ==
    IF port = NULLPTR THEN <<>>
    ELSE sendCommand(port, addr, CMD_RESET) \o sensorWait(1)

\* reset() without the guard on the transport
resetUnguarded(port, addr) ==
    sendCommand(port, addr, CMD_RESET) \o sensorWait(3)

\* reset()
reset(port, addr) ==
    IF port = NULLPTR THEN <<>>
    ELSE sendCommand(port, addr, CMD_RESET) \o sensorWait(3)

----------------------------------------------------------------------------
(* begin(): the PROM read loop.  delivered[i] is what the transport has in *)
(* its receive buffer after the request that follows command i.            *)

\* the opcode without the word index scaled to a byte address
PromCommandUnscaled(i) == CMD_PROM + i

\* CMD_PROM + (i * 2)
PromCommand(i) == CMD_PROM + (i * 2)

\* the two bytes combined in the wrong order
PromWordSwapped(highByte, lowByte) == uint16(BitOr(lowByte * 256, highByte))

\* coefficient[i] = (highByte << 8) | lowByte
PromWord(highByte, lowByte) == uint16(BitOr(highByte * 256, lowByte))

RECURSIVE PromLoop(_, _, _, _, _, _)
PromLoop(i, port, addr, delivered, coef, log) ==
    IF i > 7 THEN [coefficient |-> coef, bus |-> log]
    ELSE
        LET cmd == sendCommand(port, addr, PromCommand(i))
            r1 == WireRead(delivered[i])
            highByte == uint8(r1.val)
            r2 == WireRead(r1.rx)
            lowByte == uint8(r2.val)
            word == PromWord(highByte, lowByte)
        IN  PromLoop(i + 1, port, addr, delivered,
                     [coef EXCEPT ![i] = word],
                     log \o cmd
                         \o << Ev("requestFrom", addr, 2),
                               Ev("read", r1.val, 0),
                               Ev("read", r2.val, 0) >>)

\* begin(wirePort) that reports a word the transport did not deliver whole
beginReportsShortRead(addr, delivered, coef) ==
    LET port == WIRE
        looped == PromLoop(0, port, addr, delivered, coef, reset(port, addr))
    IN  [coefficient |-> looped.coefficient, bus |-> looped.bus,
         status |-> IF \E i \in 0..7 : Len(delivered[i]) < 2 THEN 1 ELSE 0]

\* begin(wirePort): the bus log, the coefficients and the status returned.
begin(addr, delivered, coef) ==
    LET port == WIRE
        looped == PromLoop(0, port, addr, delivered, coef, reset(port, addr))
    IN  [coefficient |-> looped.coefficient, bus |-> looped.bus, status |-> 0]

----------------------------------------------------------------------------
(* getADCconversion()                                                      *)

\* the switch with the cases of ADC_512 and ADC_1024 exchanged
ConversionWaitExchanged(precision) ==
    CASE precision = ADC_256 -> sensorWait(1)
      [] precision = ADC_512 -> sensorWait(4)
      [] precision = ADC_1024 -> sensorWait(3)
      [] precision = ADC_2048 -> sensorWait(6)
      [] precision = ADC_4096 -> sensorWait(10)
      [] OTHER -> <<>>

\* switch (_precision)
ConversionWait(precision) ==
    CASE precision = ADC_256 -> sensorWait(1)
      [] precision = ADC_512 -> sensorWait(3)
      [] precision = ADC_1024 -> sensorWait(4)
      [] precision = ADC_2048 -> sensorWait(6)
      [] precision = ADC_4096 -> sensorWait(10)
      [] OTHER -> <<>>

\* while (available()) { highByte = read(); midByte = read(); lowByte = read(); }
RECURSIVE AdcReadLoop(_, _, _, _, _)
AdcReadLoop(rx, highByte, midByte, lowByte, log) ==
    IF WireAvailable(rx) = 0
    THEN [highByte |-> highByte, midByte |-> midByte, lowByte |-> lowByte,
          rx |-> rx, bus |-> log \o << Ev("available", 0, 0) >>]
    ELSE
        LET r1 == WireRead(rx)
            r2 == WireRead(r1.rx)
            r3 == WireRead(r2.rx)
        IN  AdcReadLoop(r3.rx, uint8(r1.val), uint8(r2.val), uint8(r3.val),
                        log \o << Ev("available", WireAvailable(rx), 0),
                                  Ev("read", r1.val, 0),
                                  Ev("read", r2.val, 0),
                                  Ev("read", r3.val, 0) >>)

\* the result with the middle and low bytes exchanged
AdcResultExchanged(highByte, midByte, lowByte) ==
    BitOr(BitOr(highByte * 65536, lowByte * 256), midByte)

\* the result with the high byte shifted one place too far
AdcResultOvershifted(highByte, midByte, lowByte) ==
    BitOr(BitOr(highByte * 131072, midByte * 256), lowByte)

\* result = (highByte << 16) | (midByte << 8) | lowByte
AdcResult(highByte, midByte, lowByte) ==
    BitOr(BitOr(highByte * 65536, midByte * 256), lowByte)

\* The result and the bus log of a conversion: start is the conversion
\* command and the wait, readCmd the read command and the request, looped
\* the read loop.
AdcConverted(start, readCmd, looped) ==
    [result |-> AdcResult(looped.highByte, looped.midByte, looped.lowByte),
     bus |-> start \o readCmd \o looped.bus]

getADCconversion(port, addr, measurement, precision, delivered) ==
    IF port = NULLPTR THEN [result |-> 0, bus |-> <<>>]
    ELSE AdcConverted(sendCommand(port, addr, CMD_ADC_CONV + measurement + precision)
                          \o sensorWait(1)
                          \o ConversionWait(precision),
                      sendCommand(port, addr, CMD_ADC_READ)
                          \o << Ev("requestFrom", addr, 3) >>,
                      AdcReadLoop(delivered, 0, 0, 0, <<>>))

----------------------------------------------------------------------------
(* 64-bit arithmetic.  The values of getMeasurements() exceed the range of *)
(* the checker's integers, so an int64_t or uint64_t value is held as sign *)
(* and magnitude, the magnitude as 15-bit limbs, least significant first.  *)

LimbBits == 15
Base == Pow2(LimbBits)

RECURSIVE MagNorm(_)
MagNorm(m) ==
    IF m = <<>> THEN m
    ELSE IF m[Len(m)] = 0 THEN MagNorm(SubSeq(m, 1, Len(m) - 1))
    ELSE m

Limb(m, i) == IF i <= Len(m) THEN m[i] ELSE 0

RECURSIVE MagOfNat(_)
MagOfNat(n) == IF n = 0 THEN <<>> ELSE <<n % Base>> \o MagOfNat(n \div Base)

RECURSIVE MagAddFrom(_, _, _, _)
MagAddFrom(a, b, i, carry) ==
    IF i > Len(a) /\ i > Len(b)
    THEN (IF carry = 0 THEN <<>> ELSE <<carry>>)
    ELSE LET s == Limb(a, i) + Limb(b, i) + carry
         IN  <<s % Base>> \o MagAddFrom(a, b, i + 1, s \div Base)

MagAdd(a, b) == MagNorm(MagAddFrom(a, b, 1, 0))

\* a - b for a >= b
RECURSIVE MagSubFrom(_, _, _, _)
MagSubFrom(a, b, i, borrow) ==
    IF i > Len(a) THEN <<>>
    ELSE LET d == a[i] - Limb(b, i) - borrow
         IN  IF d < 0 THEN <<d + Base>> \o MagSubFrom(a, b, i + 1, 1)
             ELSE <<d>> \o MagSubFrom(a, b, i + 1, 0)

MagSub(a, b) == MagNorm(MagSubFrom(a, b, 1, 0))

RECURSIVE MagLessAt(_, _, _)
MagLessAt(a, b, i) ==
    IF i = 0 THEN FALSE
    ELSE IF a[i] # b[i] THEN a[i] < b[i]
    ELSE MagLessAt(a, b, i - 1)

\* a < b, both without leading zero limbs
MagLess(a, b) ==
    IF Len(a) # Len(b) THEN Len(a) < Len(b) ELSE MagLessAt(a, b, Len(a))

RECURSIVE MagMulSmallFrom(_, _, _, _)
MagMulSmallFrom(a, k, i, carry) ==
    IF i > Len(a) THEN (IF carry = 0 THEN <<>> ELSE <<carry>>)
    ELSE LET p == a[i] * k + carry
         IN  <<p % Base>> \o MagMulSmallFrom(a, k, i + 1, p \div Base)

Zeros(n) == [i \in 1..n |-> 0]

RECURSIVE MagMulFrom(_, _, _)
MagMulFrom(a, b, j) ==
    IF j > Len(b) THEN <<>>
    ELSE MagAdd(Zeros(j - 1) \o MagMulSmallFrom(a, b[j], 1, 0),
                MagMulFrom(a, b, j + 1))

MagMul(a, b) == MagNorm(MagMulFrom(a, b, 1))

MagShrLimbs(kept, r) ==
    MagNorm([i \in 1..Len(kept) |->
                (kept[i] \div Pow2(r))
                + (Limb(kept, i + 1) % Pow2(r)) * Pow2(LimbBits - r)])

\* floor(a / 2^n)
MagShr(a, n) ==
    MagShrLimbs(IF n \div LimbBits >= Len(a) THEN <<>>
                ELSE SubSeq(a, (n \div LimbBits) + 1, Len(a)),
                n % LimbBits)

\* a * 2^n
MagShl(a, n) ==
    MagNorm(Zeros(n \div LimbBits) \o MagMulSmallFrom(a, Pow2(n % LimbBits), 1, 0))

\* a mod 2^n
MagLowBits(a, n) == MagSub(a, MagShl(MagShr(a, n), n))

RECURSIVE BitLen(_)
BitLen(n) == IF n = 0 THEN 0 ELSE 1 + BitLen(n \div 2)

MagBitLen(a) ==
    IF a = <<>> THEN 0 ELSE (Len(a) - 1) * LimbBits + BitLen(a[Len(a)])

MkBig(neg, mag) == [neg |-> neg /\ mag # <<>>, mag |-> mag]

\* An integer of the checker (32 bits) as a wide value.
Big(n) ==
    IF n >= 0 THEN MkBig(FALSE, MagOfNat(n))
    ELSE MkBig(TRUE, MagAdd(MagOfNat(-(n + 1)), <<1>>))

BigNeg(x) == MkBig(~x.neg, x.mag)

BigAdd(x, y) ==
    IF x.neg = y.neg THEN MkBig(x.neg, MagAdd(x.mag, y.mag))
    ELSE IF MagLess(x.mag, y.mag) THEN MkBig(y.neg, MagSub(y.mag, x.mag))
    ELSE MkBig(x.neg, MagSub(x.mag, y.mag))

BigSub(x, y) == BigAdd(x, BigNeg(y))

BigMul(x, y) == MkBig(x.neg # y.neg, MagMul(x.mag, y.mag))

\* x << n on a value that stays in range
BigShl(x, n) == MkBig(x.neg, MagShl(x.mag, n))

BigFloor(neg, q, exact) ==
    IF neg /\ ~exact THEN MkBig(TRUE, MagAdd(q, <<1>>)) ELSE MkBig(neg, q)

\* x >> n, the arithmetic shift: floor(x / 2^n)
BigShr(x, n) == BigFloor(x.neg, MagShr(x.mag, n), MagLowBits(x.mag, n) = <<>>)

\* x / 2^n, the integer division: truncation toward zero
BigDivPow2(x, n) == MkBig(x.neg, MagShr(x.mag, n))

BigLess(x, y) ==
    IF x.neg # y.neg THEN x.neg
    ELSE IF x.neg THEN MagLess(y.mag, x.mag)
    ELSE MagLess(x.mag, y.mag)

\* The low 32 bits of a magnitude, bit 31 apart, read as two's complement
\* and given the sign neg.
Int32Signed(neg, lo31, bit31) ==
    IF ~neg THEN (IF bit31 = 0 THEN lo31 ELSE (lo31 - 2147483647) - 1)
    ELSE IF bit31 = 0 THEN -lo31
    ELSE IF lo31 = 0 THEN (lo31 - 2147483647) - 1
    ELSE -((lo31 - 2147483647) - 1)

Int32OfLow(neg, low) ==
    Int32Signed(neg,
                Limb(low, 1) + Limb(low, 2) * Base + (Limb(low, 3) % 2) * Pow2(30),
                (Limb(low, 3) \div 2) % 2)

\* Conversion to int32_t: the low 32 bits, read as two's complement.
BigToInt32(x) == Int32OfLow(x.neg, MagLowBits(x.mag, 32))

Uint64OfLow(neg, low) ==
    IF ~neg \/ low = <<>> THEN MkBig(FALSE, low)
    ELSE MkBig(FALSE, MagSub(MagShl(<<1>>, 64), low))

\* Conversion of an int32_t to uint64_t: modulo 2^64.
BigToUint64(x) == Uint64OfLow(x.neg, MagLowBits(x.mag, 64))

\* Conversion of an unsigned value to a floating-point number whose
\* significand has p bits, rounding to nearest, ties to even: q is the
\* value without its sh low bits, rem those bits, half the midpoint.
RoundsUp(q, rem, half) ==
    MagLess(half, rem) \/ (rem = half /\ Limb(q, 1) % 2 = 1)

RoundQuotient(mag, q, sh) ==
    MagShl(IF RoundsUp(q, MagSub(mag, MagShl(q, sh)), MagShl(<<1>>, sh - 1))
           THEN MagAdd(q, <<1>>) ELSE q,
           sh)

RoundToMantissa(mag, p) ==
    IF MagBitLen(mag) <= p THEN mag
    ELSE RoundQuotient(mag, MagShr(mag, MagBitLen(mag) - p), MagBitLen(mag) - p)

----------------------------------------------------------------------------
(* getMeasurements(): the compensation arithmetic.                         *)
(*                                                                         *)
(* A build fixes what the language leaves open: `overflow` is what a       *)
(* signed 32-bit multiplication that overflows yields ("wrap": the low 32  *)
(* bits; "wide": the product, kept in a wider register), and `mantissa` is *)
(* the width of the significand of double (24 where double is float).      *)

Builds ==
    { [overflow |-> "wrap", mantissa |-> 24],
      [overflow |-> "wide", mantissa |-> 53] }

Mul32Of(exact, build) ==
    IF build.overflow = "wrap" THEN Big(BigToInt32(exact)) ELSE exact

\* a * b on int32_t operands, as a wide value
Mul32(a, b, build) == Mul32Of(BigMul(a, b), build)

\* v * v on an int32_t operand
Square32(v, build) == Mul32(Big(v), Big(v), build)

\* (uint64_t)dT * dT
Uint64Square(u) == BigToUint64(BigMul(u, u))

\* T2 = 7 * ((uint64_t)dT * dT) / pow(2, 37)
T2Warm(dT, build) ==
    MkBig(FALSE,
          MagShr(RoundToMantissa(
                     BigToUint64(BigMul(Big(7),
                                        Uint64Square(BigToUint64(Big(dT))))).mag,
                     build.mantissa),
                 37))

\* dT without the shift of coefficient[5]
DeltaTUnshifted(coef, temperature_raw) == temperature_raw - coef[5]

\* dT = D2 - C5 * 2^8
DeltaT(coef, temperature_raw) == temperature_raw - (coef[5] * 256)

\* temp_calc = ((dT * C6) >> 23) + 2000
FirstOrderTemperature(coef, dT) ==
    BigToInt32(BigAdd(BigShr(BigMul(Big(dT), Big(coef[6])), 23), Big(2000)))

SecondOrder(T2, OFF2, SENS2) == [T2 |-> T2, OFF2 |-> OFF2, SENS2 |-> SENS2]

\* temp_calc < 2000; sq2000 is (temp_calc - 2000) * (temp_calc - 2000)
Cold(dT, sq2000, build) ==
    SecondOrder(BigMul(Big(3), BigShr(BigMul(Big(dT), Big(dT)), 33)),
                BigDivPow2(Mul32(Big(3), sq2000, build), 1),
                BigDivPow2(Mul32(Big(5), sq2000, build), 3))

\* temp_calc < -1500; sq1500 is (temp_calc + 1500) * (temp_calc + 1500)
VeryColdOf(c, sq1500, build) ==
    SecondOrder(c.T2,
                BigAdd(c.OFF2, Mul32(Big(7), sq1500, build)),
                BigAdd(c.SENS2, Mul32(Big(4), sq1500, build)))

\* the correction with its threshold one hundredth of a degree lower
VeryColdBelowMinus1501(c, temp_calc, build) ==
    IF temp_calc < -1501
    THEN VeryColdOf(c, Square32(temp_calc + 1500, build), build)
    ELSE c

VeryCold(c, temp_calc, build) ==
    IF temp_calc < -1500
    THEN VeryColdOf(c, Square32(temp_calc + 1500, build), build)
    ELSE c

\* temp_calc >= 2000
Warm(dT, sq2000, build) ==
    SecondOrder(T2Warm(dT, build), BigDivPow2(sq2000, 4), Big(0))

\* T2, OFF2 and SENS2
SecondOrderOf(dT, temp_calc, sq2000, build) ==
    IF temp_calc < 2000
    THEN VeryCold(Cold(dT, sq2000, build), temp_calc, build)
    ELSE Warm(dT, sq2000, build)

\* OFF = C2 * 2^16 + (C4 * dT) / 2^7
Offset(coef, dT) ==
    BigAdd(BigShl(Big(coef[2]), 16), BigShr(BigMul(Big(coef[4]), Big(dT)), 7))

\* SENS = C1 * 2^15 + (C3 * dT) / 2^8
Sensitivity(coef, dT) ==
    BigAdd(BigShl(Big(coef[1]), 15), BigShr(BigMul(Big(coef[3]), Big(dT)), 8))

\* the pressure with shifts in place of the divisions
PressureShifted(SENS, OFF, pressure_raw) ==
    BigShr(BigSub(BigShr(BigMul(SENS, Big(pressure_raw)), 21), OFF), 15)

\* ((SENS * D1) / 2^21 - OFF) / 2^15
Pressure(SENS, OFF, pressure_raw) ==
    BigDivPow2(BigSub(BigDivPow2(BigMul(SENS, Big(pressure_raw)), 21), OFF), 15)

Working(dT, temp_calc, c, OFF, SENS, P) ==
    [dT |-> dT, temp_first |-> temp_calc, T2 |-> c.T2, OFF2 |-> c.OFF2,
     SENS2 |-> c.SENS2, OFF |-> OFF, SENS |-> SENS, P |-> P,
     temp_calc |-> BigToInt32(BigSub(Big(temp_calc), c.T2)),
     pressure_calc |-> BigToInt32(P)]

Corrected(dT, temp_calc, c, OFF, SENS, pressure_raw) ==
    Working(dT, temp_calc, c, OFF, SENS, Pressure(SENS, OFF, pressure_raw))

Applied(coef, pressure_raw, dT, temp_calc, c) ==
    Corrected(dT, temp_calc, c,
              BigSub(Offset(coef, dT), c.OFF2),
              BigSub(Sensitivity(coef, dT), c.SENS2),
              pressure_raw)

FromFirstOrder(coef, pressure_raw, dT, temp_calc, build) ==
    Applied(coef, pressure_raw, dT, temp_calc,
            SecondOrderOf(dT, temp_calc, Square32(temp_calc - 2000, build), build))

FromDeltaT(coef, pressure_raw, dT, build) ==
    FromFirstOrder(coef, pressure_raw, dT, FirstOrderTemperature(coef, dT), build)

\* The working variables of getMeasurements() for coefficients coef and
\* raw codes pressure_raw (D1) and temperature_raw (D2).
Compensate(coef, pressure_raw, temperature_raw, build) ==
    FromDeltaT(coef, pressure_raw, DeltaT(coef, temperature_raw), build)

\* What the transport holds after a request that the sensor answers with
\* the first k of `bytes`.
Delivered(bytes, k) == SubSeq(bytes, 1, k)

\* The deliveries of eight 2-byte requests with at most n of them short.
PromDeliveries(n) ==
    UNION { { [i \in 0..7 |-> IF i \in S THEN k[i] ELSE 2] : k \in [S -> 0..1] } :
            S \in { T \in SUBSET (0..7) : Cardinality(T) <= n } }

PromDelivered(image, ks) ==
    [i \in 0..7 |-> Delivered(BytesOf(image[i + 1], 2), ks[i])]

\* Compensate is evaluated once for each input the model can present to
\* it: the coefficient sets begin() can load (and the initial one), the
\* raw codes getADCconversion() can return, and the builds.
NoCoefficients == [i \in 0..7 |-> 0]

CoefficientSets ==
    {NoCoefficients} \cup
    { begin(ADDRESS_HIGH, PromDelivered(image, ks), NoCoefficients).coefficient :
        image \in PromImages, ks \in PromDeliveries(MaxShortReads) }

RawCodes ==
    {0} \cup
    { getADCconversion(WIRE, ADDRESS_HIGH, TEMPERATURE, ADC_256,
                       Delivered(BytesOf(code, 3), k)).result :
        code \in AdcCodes[TEMPERATURE] \cup AdcCodes[PRESSURE], k \in 0..3 }

CompensateTable ==
    [build \in Builds |-> [coef \in CoefficientSets |->
        [pressure_raw \in RawCodes |-> [temperature_raw \in RawCodes |->
            Compensate(coef, pressure_raw, temperature_raw, build)]]]]

Compensated(coef, pressure_raw, temperature_raw, build) ==
    CompensateTable[build][coef][pressure_raw][temperature_raw]

\* What getMeasurements() stores and what it did on the bus, log.
Stores(temperature_raw, pressure_raw, c, log) ==
    [temperature_raw |-> temperature_raw, pressure_raw |-> pressure_raw,
     temperature_actual |-> c.temp_calc, pressure_actual |-> c.pressure_calc,
     bus |-> log]

ConvertedPressureFirst(coef, convT, convP, build) ==
    Stores(convT.result, convP.result,
           Compensated(coef, convP.result, convT.result, build),
           convP.bus \o convT.bus)

\* getMeasurements() converting the pressure before the temperature
getMeasurementsPressureFirst(port, addr, coef, precision, deliveredT, deliveredP, build) ==
    ConvertedPressureFirst(
        coef,
        getADCconversion(port, addr, TEMPERATURE, precision, deliveredT),
        getADCconversion(port, addr, PRESSURE, precision, deliveredP),
        build)

\* The compensation of the two conversions convT and convP.
Converted(coef, convT, convP, build) ==
    Stores(convT.result, convP.result,
           Compensated(coef, convP.result, convT.result, build),
           convT.bus \o convP.bus)

\* getMeasurements(_precision): both conversions, temperature first, then
\* the compensation; what it stores and what it did on the bus.
getMeasurements(port, addr, coef, precision, deliveredT, deliveredP, build) ==
    Converted(coef,
              getADCconversion(port, addr, TEMPERATURE, precision, deliveredT),
              getADCconversion(port, addr, PRESSURE, precision, deliveredP),
              build)

\* The float a getter returns, as the fraction <<numerator, denominator>>
\* of its real value.
TemperatureReported(units, t) ==
    IF units = "FAHRENHEIT" THEN <<t * 9 + 16000, 500>> ELSE <<t, 100>>

PressureReported(p) == <<p, 10>>

----------------------------------------------------------------------------
(* The state machine: the object after construction, then any sequence of  *)
(* calls of its public operations.                                         *)

\* Number of requests answered short, of those asking n bytes.
Short(ks, n) == Cardinality({i \in DOMAIN ks : ks[i] < n})

Called(name, arg, raw, ret) == [name |-> name, arg |-> arg, raw |-> raw, ret |-> ret]

\* MS5803(address)
Init ==
    /\ i2cPort = NULLPTR
    /\ address = ADDRESS_HIGH
    /\ coefficient = NoCoefficients
    /\ temperature_actual = 0
    /\ pressure_actual = 0
    /\ rxBuffer = <<>>
    /\ bus = <<>>
    /\ call = Called("MS5803", <<>>, <<>>, <<>>)
    /\ prom \in PromImages
    /\ platform \in Builds
    /\ shortReads = 0
    /\ memo = <<>>

\* begin(wirePort) on the driver whose address is addr; ks[i] is the number
\* of bytes the transport delivers for PROM word i.
BeginWith(name, addr, ks) ==
    LET r == begin(addr, PromDelivered(prom, ks), coefficient)
    IN  /\ shortReads + Short(ks, 2) <= MaxShortReads
        /\ i2cPort' = WIRE
        /\ address' = addr
        /\ coefficient' = r.coefficient
        /\ bus' = r.bus
        /\ rxBuffer' = <<>>
        /\ call' = Called(name, <<addr>>, <<>>, r.status)
        /\ shortReads' = shortReads + Short(ks, 2)
        /\ UNCHANGED <<temperature_actual, pressure_actual, prom, platform>>

PromDeliveriesUpTo == [n \in 0..MaxShortReads |-> PromDeliveries(n)]

\* begin(wirePort, address)
BeginAddress ==
    \E addr \in Addresses, ks \in PromDeliveriesUpTo[MaxShortReads - shortReads] :
        BeginWith("begin(wirePort, address)", addr, ks)

\* begin(wirePort)
Begin ==
    \E ks \in PromDeliveriesUpTo[MaxShortReads - shortReads] :
        BeginWith("begin(wirePort)", address, ks)

\* reset()
Reset ==
    /\ bus' = reset(i2cPort, address)
    /\ call' = Called("reset", <<>>, <<>>, <<>>)
    /\ UNCHANGED <<i2cPort, address, coefficient, temperature_actual,
                   pressure_actual, rxBuffer, prom, platform, shortReads>>

\* The part getTemperature() and getPressure() share: getMeasurements()
\* with the sensor converting codeT and codeP and the transport delivering
\* kT and kP bytes of them.
Measure(precision, codeT, codeP, kT, kP) ==
    getMeasurements(i2cPort, address, coefficient, precision,
                    Delivered(BytesOf(codeT, 3), kT),
                    Delivered(BytesOf(codeP, 3), kP), platform)

ShortOf(kT, kP) ==
    IF i2cPort = NULLPTR THEN 0
    ELSE (IF kT < 3 THEN 1 ELSE 0) + (IF kP < 3 THEN 1 ELSE 0)

\* a getter that clears the coefficients it worked on
GotForgetting(name, arg, m, ret, short) ==
    /\ shortReads + short <= MaxShortReads
    /\ temperature_actual' = m.temperature_actual
    /\ pressure_actual' = m.pressure_actual
    /\ bus' = m.bus
    /\ rxBuffer' = <<>>
    /\ call' = Called(name, arg, <<m.temperature_raw, m.pressure_raw>>, ret)
    /\ shortReads' = shortReads + short
    /\ coefficient' = NoCoefficients
    /\ UNCHANGED <<i2cPort, address, prom, platform>>

\* What a getter leaves behind: m is what getMeasurements() did, ret the
\* value returned, short the number of requests answered short.
Got(name, arg, m, ret, short) ==
    /\ shortReads + short <= MaxShortReads
    /\ temperature_actual' = m.temperature_actual
    /\ pressure_actual' = m.pressure_actual
    /\ bus' = m.bus
    /\ rxBuffer' = <<>>
    /\ call' = Called(name, arg, <<m.temperature_raw, m.pressure_raw>>, ret)
    /\ shortReads' = shortReads + short
    /\ UNCHANGED <<i2cPort, address, coefficient, prom, platform>>

\* getTemperature() that converts the temperature stored before the call
GetTemperatureStaleOf(units, precision, m, short) ==
    Got("getTemperature", <<units, precision>>, m,
        TemperatureReported(units, temperature_actual), short)

GetTemperatureStale ==
    \E units \in Units, precision \in Precisions,
       codeT \in AdcCodes[TEMPERATURE], codeP \in AdcCodes[PRESSURE],
       kT \in 0..3, kP \in 0..3 :
        GetTemperatureStaleOf(units, precision,
                              Measure(precision, codeT, codeP, kT, kP),
                              ShortOf(kT, kP))

GetTemperatureOf(units, precision, m, short) ==
    Got("getTemperature", <<units, precision>>, m,
        TemperatureReported(units, m.temperature_actual), short)

\* getTemperature(units, _precision)
GetTemperature ==
    \E units \in Units, precision \in Precisions,
       codeT \in AdcCodes[TEMPERATURE], codeP \in AdcCodes[PRESSURE],
       kT \in 0..3, kP \in 0..3 :
        GetTemperatureOf(units, precision,
                         Measure(precision, codeT, codeP, kT, kP),
                         ShortOf(kT, kP))

GetPressureOf(precision, m, short) ==
    Got("getPressure", <<precision>>, m, PressureReported(m.pressure_actual), short)

\* getPressure(_precision)
GetPressure ==
    \E precision \in Precisions,
       codeT \in AdcCodes[TEMPERATURE], codeP \in AdcCodes[PRESSURE],
       kT \in 0..3, kP \in 0..3 :
        GetPressureOf(precision, Measure(precision, codeT, codeP, kT, kP),
                      ShortOf(kT, kP))

Next ==
    \/ BeginAddress /\ UNCHANGED memo
    \/ Begin /\ UNCHANGED memo
    \/ Reset /\ UNCHANGED memo
    \/ GetTemperature /\ UNCHANGED memo
    \/ GetPressure /\ UNCHANGED memo

Spec == Init /\ [][Next]_vars

----------------------------------------------------------------------------
(* The same machine with a history variable: memo holds the first getter  *)
(* call made since the coefficients were last loaded (or since             *)
(* construction), with the coefficients and raw codes it worked on and     *)
(* what it returned and stored.                                            *)

Getters == {"getTemperature", "getPressure"}

Snapshot(c, coef, t, p) ==
    [name |-> c.name, units |-> c.arg[1], raw |-> c.raw, ret |-> c.ret,
     coefficient |-> coef, temperature_actual |-> t, pressure_actual |-> p]

Remember ==
    memo' = IF memo = <<>>
            THEN << Snapshot(call', coefficient', temperature_actual',
                             pressure_actual') >>
            ELSE memo

Forget == memo' = <<>>

NextHistory ==
    \/ BeginAddress /\ Forget
    \/ Begin /\ Forget
    \/ Reset /\ UNCHANGED memo
    \/ GetTemperature /\ Remember
    \/ GetPressure /\ Remember

SpecHistory == Init /\ [][NextHistory]_vars

----------------------------------------------------------------------------
(* Reading the bus log of the latest call.                                 *)

BeginNames == {"begin(wirePort)", "begin(wirePort, address)"}

\* The precision argument of the latest getter call.
PrecisionOf(c) == c.arg[Len(c.arg)]

\* Positions of the command bytes written.
Writes(log) == {i \in DOMAIN log : log[i].op = "write"}

\* The command bytes written, in order.
RECURSIVE WrittenFrom(_, _)
WrittenFrom(log, i) ==
    IF i > Len(log) THEN <<>>
    ELSE (IF log[i].op = "write" THEN <<log[i].a>> ELSE <<>>)
             \o WrittenFrom(log, i + 1)

Written(log) == WrittenFrom(log, 1)

\* Total of the delays performed at positions i..j.
RECURSIVE DelayBetween(_, _, _)
DelayBetween(log, i, j) ==
    IF i > j THEN 0
    ELSE (IF log[i].op = "delay" THEN log[i].a ELSE 0) + DelayBetween(log, i + 1, j)

\* The values read() returned after position j, up to the next frame.
RECURSIVE ReadsFrom(_, _)
ReadsFrom(log, i) ==
    IF i > Len(log) \/ log[i].op = "beginTransmission" THEN <<>>
    ELSE (IF log[i].op = "read" THEN <<log[i].a>> ELSE <<>>)
             \o ReadsFrom(log, i + 1)

\* Positions of the read requests, in order.
RECURSIVE RequestsFrom(_, _)
RequestsFrom(log, i) ==
    IF i > Len(log) THEN <<>>
    ELSE (IF log[i].op = "requestFrom" THEN <<i>> ELSE <<>>)
             \o RequestsFrom(log, i + 1)

Requests(log) == RequestsFrom(log, 1)

\* The byte a variable of type uint8_t holds after being assigned v.
AsByte(v) == v % 256

BoundGetterCall == call.name \in Getters /\ i2cPort = WIRE

----------------------------------------------------------------------------
(* C1: in a getter call with the transport bound, every read-ADC-result    *)
(* command comes after a conversion-start command, with no command in      *)
(* between, and the delays between the two add up to exactly 1 + d, where  *)
(* d is 1, 3, 4, 6, 10 for OSR 256, 512, 1024, 2048, 4096.                 *)

DocumentedWait ==
    [p \in Precisions |->
        CASE p = ADC_256 -> 1 [] p = ADC_512 -> 3 [] p = ADC_1024 -> 4
          [] p = ADC_2048 -> 6 [] p = ADC_4096 -> 10]

C1_WaitBeforeAdcRead ==
    BoundGetterCall =>
        LET starts == {i \in Writes(bus) : bus[i].a # CMD_ADC_READ}
            reads == {j \in Writes(bus) : bus[j].a = CMD_ADC_READ}
            Adjacent(i, j) == i < j /\ \A k \in Writes(bus) : ~(i < k /\ k < j)
        IN  /\ reads # {}
            /\ \A j \in reads : \E i \in starts :
                   /\ Adjacent(i, j)
                   /\ DelayBetween(bus, i, j) = 1 + DocumentedWait[PrecisionOf(call)]
            /\ \A i \in starts : \E j \in reads : Adjacent(i, j)

C1_Witness ==
    /\ BoundGetterCall
    /\ PrecisionOf(call) = ADC_1024
    /\ \E i \in DOMAIN bus : bus[i] = Ev("delay", 4, 0)

----------------------------------------------------------------------------
(* C2, as stated: in a getter call with the transport bound, each read     *)
(* request asks for 3 bytes and is followed by exactly 3 reads, whatever   *)
(* number of bytes the transport reports available, and the code returned  *)
(* is (high << 16) | (mid << 8) | low of the three bytes read, in order.   *)

CodeOf(reads) ==
    AsByte(reads[1]) * 65536 + AsByte(reads[2]) * 256 + AsByte(reads[3])

C2_ThreeBytesAlways ==
    BoundGetterCall =>
        /\ Len(Requests(bus)) = 2
        /\ \A n \in 1..2 :
               LET j == Requests(bus)[n]
                   reads == ReadsFrom(bus, j + 1)
               IN  /\ bus[j].b = 3
                   /\ Len(reads) = 3
                   /\ call.raw[n] = CodeOf(reads)

(* C2, amended: each read request asks for 3 bytes; when the transport     *)
(* then reports 1, 2 or 3 bytes available exactly 3 reads follow (a read   *)
(* past the delivered bytes gives 0xFF) and the code returned is           *)
(* (high << 16) | (mid << 8) | low of the three values read, in order;     *)
(* when it reports none available no byte is read and the code is 0.       *)

C2_ThreeBytesWhenAvailable ==
    BoundGetterCall =>
        /\ Len(Requests(bus)) = 2
        /\ \A n \in 1..2 :
               LET j == Requests(bus)[n]
                   reads == ReadsFrom(bus, j + 1)
               IN  /\ bus[j].b = 3
                   /\ bus[j + 1].op = "available"
                   /\ bus[j + 1].a \in 0..3
                   /\ bus[j + 1].a = 0 => reads = <<>> /\ call.raw[n] = 0
                   /\ bus[j + 1].a > 0 =>
                          /\ Len(reads) = 3
                          /\ call.raw[n] = CodeOf(reads)
                          /\ \A k \in 1..3 :
                                 reads[k] = IF k <= bus[j + 1].a
                                            THEN AsByte(reads[k]) ELSE -1

C2_Witness ==
    /\ BoundGetterCall
    /\ \E i \in DOMAIN bus : bus[i] = Ev("available", 1, 0)
    /\ \E i \in DOMAIN bus : bus[i] = Ev("available", 3, 0)

----------------------------------------------------------------------------
(* C3: begin() puts on the bus, in this order: the reset command, a wait   *)
(* of 3, then for i = 0..7 the command CMD_PROM + 2*i followed by a        *)
(* request for 2 bytes and their reads; nothing else.                      *)

C3_BeginSequence ==
    call.name \in BeginNames =>
        /\ Len(bus) = 4 + 8 * 6
        /\ bus[1] = Ev("beginTransmission", address, 0)
        /\ bus[2] = Ev("write", CMD_RESET, 0)
        /\ bus[3].op = "endTransmission"
        /\ bus[4] = Ev("delay", 3, 0)
        /\ \A i \in 0..7 :
               LET at == 4 + 6 * i
               IN  /\ bus[at + 1] = Ev("beginTransmission", address, 0)
                   /\ bus[at + 2] = Ev("write", CMD_PROM + 2 * i, 0)
                   /\ bus[at + 3].op = "endTransmission"
                   /\ bus[at + 4] = Ev("requestFrom", address, 2)
                   /\ bus[at + 5].op = "read"
                   /\ bus[at + 6].op = "read"

C3_Witness ==
    /\ call.name = "begin(wirePort, address)"
    /\ address = ADDRESS_LOW
    /\ Written(bus)[9] = CMD_PROM + 14

----------------------------------------------------------------------------
(* C4: after begin(), coefficient[i] is (high << 8) | low of the two       *)
(* values read after the i-th read-PROM command, taken as bytes, it lies   *)
(* in 0..65535, and it is the sensor's PROM word i when the transport      *)
(* delivered both bytes.                                                   *)

C4_CoefficientsBigEndian ==
    call.name \in BeginNames =>
        \A i \in 0..7 :
            LET high == bus[4 + 6 * i + 5].a
                low == bus[4 + 6 * i + 6].a
            IN  /\ coefficient[i] = AsByte(high) * 256 + AsByte(low)
                /\ coefficient[i] \in 0..65535
                /\ (high >= 0 /\ low >= 0) => coefficient[i] = prom[i + 1]

C4_Witness ==
    /\ call.name \in BeginNames
    /\ coefficient[1] = 40000
    /\ coefficient[6] = 25000

----------------------------------------------------------------------------
(* C5: while no transport is bound, reset() and the getters put nothing on *)
(* the bus and perform no delay, reset() changes nothing of the driver's   *)
(* state, and both raw codes of a getter call are 0.                       *)

C5_UnboundIsNoOp ==
    [][ i2cPort = NULLPTR =>
          /\ call'.name = "reset" =>
                 /\ bus' = <<>>
                 /\ UNCHANGED <<i2cPort, address, coefficient,
                                temperature_actual, pressure_actual, rxBuffer>>
          /\ call'.name \in Getters =>
                 /\ bus' = <<>>
                 /\ call'.raw = <<0, 0>>
                 /\ UNCHANGED <<i2cPort, address, coefficient>> ]_vars

C5_Witness ==
    /\ i2cPort = NULLPTR
    /\ call.name = "reset"
    /\ bus = <<>>

----------------------------------------------------------------------------
(* C6: begin() returns 0 whatever the transport delivers for the PROM      *)
(* words.                                                                  *)

C6_BeginReturnsZero == call.name \in BeginNames => call.ret = 0

C6_Witness ==
    /\ call.name \in BeginNames
    /\ call.ret = 0
    /\ \E i \in DOMAIN bus : bus[i] = Ev("read", -1, 0)

----------------------------------------------------------------------------
(* C7: a getter call that works on the same coefficients and the same raw  *)
(* codes as an earlier call of the same getter with the same units returns *)
(* the same value, and stores the same temperature and pressure as any     *)
(* earlier getter call on those inputs, whatever calls were made between.  *)

C7_SameInputsSameResult ==
    (call.name \in Getters /\ memo # <<>>) =>
        LET first == memo[1]
        IN  (first.coefficient = coefficient /\ first.raw = call.raw) =>
                /\ temperature_actual = first.temperature_actual
                /\ pressure_actual = first.pressure_actual
                /\ (first.name = call.name /\ first.units = call.arg[1]) =>
                       first.ret = call.ret

\* A getTemperature call repeats the inputs of the first one after calls
\* that stored other values in between.
C7_Witness ==
    /\ call.name = "getTemperature"
    /\ memo # <<>>
    /\ memo[1].name = "getTemperature"
    /\ memo[1].units = call.arg[1]
    /\ memo[1].raw = call.raw
    /\ memo[1].raw[1] # 0
    /\ memo[1].ret = call.ret
    /\ shortReads = 1

----------------------------------------------------------------------------
(* C8: a getter call with the transport bound writes exactly four          *)
(* commands: the conversion start of the temperature channel, the ADC      *)
(* read, the conversion start of the pressure channel, the ADC read, both  *)
(* starts with the caller's precision and each followed by a wait before   *)
(* its ADC read.                                                           *)

C8_FreshAcquisition ==
    BoundGetterCall =>
        LET p == PrecisionOf(call)
        IN  /\ Written(bus) = << CMD_ADC_CONV + TEMPERATURE + p, CMD_ADC_READ,
                                 CMD_ADC_CONV + PRESSURE + p, CMD_ADC_READ >>
            /\ \A i \in Writes(bus) :
                   bus[i].a # CMD_ADC_READ =>
                       /\ bus[i + 2].op = "delay"
                       /\ \E j \in Writes(bus) : j > i /\ bus[j].a = CMD_ADC_READ

C8_Witness ==
    /\ BoundGetterCall
    /\ call.name = "getPressure"
    /\ PrecisionOf(call) = ADC_2048
    /\ Len(Written(bus)) = 4

----------------------------------------------------------------------------
(* C9: reset() with the transport bound puts on the bus the reset command  *)
(* and a wait of 3 and nothing else, and leaves the coefficients, the      *)
(* address and the transport binding as they were.                         *)

C9_ResetAlone ==
    [][ (i2cPort = WIRE /\ call'.name = "reset") =>
          /\ bus' = << Ev("beginTransmission", address, 0),
                       Ev("write", CMD_RESET, 0),
                       Ev("endTransmission", 0, 0),
                       Ev("delay", 3, 0) >>
          /\ UNCHANGED <<coefficient, address, i2cPort>> ]_vars

C9_Witness ==
    /\ i2cPort = WIRE
    /\ call.name = "reset"
    /\ coefficient[1] = 40000
    /\ Written(bus) = <<CMD_RESET>>

----------------------------------------------------------------------------
(* C10: both raw codes of a getter call lie in 0 .. 2^24 - 1, also when    *)
(* the transport delivers fewer than 3 bytes or none.                      *)

C10_RawCodeIs24Bit ==
    call.name \in Getters =>
        \A n \in 1..2 : call.raw[n] \in 0..16777215

C10_Witness ==
    /\ BoundGetterCall
    /\ \E i \in DOMAIN bus : bus[i] = Ev("read", -1, 0)
    /\ call.raw[1] > 65535

----------------------------------------------------------------------------
(* getMeasurements() on its own.  The driver has loaded one of a few       *)
(* calibrations, whole, and the sensor converts codes at the edges of the  *)
(* 24-bit range and at the branch points of the compensation.  The working *)
(* variables of the latest call are kept in call.ret.                      *)

\* PROM images: a typical part, and parts whose words 5 and 6 are extreme.
Calibrations ==
    { <<0, 40000, 40000, 30000, 20000, 30000, 25000, 0>>,
      <<0, 65535, 65535, 65535, 65535, 0, 65535, 0>>,
      <<0, 65535, 65535, 65535, 65535, 65535, 65535, 0>>,
      <<0, 65535, 65535, 65535, 65535, 32768, 0, 0>> }

\* Raw temperature codes (D2): the ends of the range, each image's
\* coefficient[5] << 8, and codes on either side of the branch points.
TemperatureCodes ==
    { 0, 2341, 7679999, 7680000, 7680335, 7680336, 8388608, 14086999,
      16328826, 16328954, 16329082, 16776832, 16776960, 16777215 }

\* Raw pressure codes (D1).
PressureCodes == { 0, 11259375, 16777215 }

\* The state after begin() has read a calibration in full.
InitMeasurements ==
    /\ i2cPort = WIRE
    /\ address = ADDRESS_HIGH
    /\ prom \in Calibrations
    /\ coefficient = [i \in 0..7 |-> prom[i + 1]]
    /\ temperature_actual = 0
    /\ pressure_actual = 0
    /\ rxBuffer = <<>>
    /\ bus = <<>>
    /\ call = Called("begin(wirePort)", <<ADDRESS_HIGH>>, <<>>, 0)
    /\ platform \in Builds
    /\ shortReads = 0
    /\ memo = <<>>

\* What getMeasurements() leaves behind: convT and convP are the two
\* conversions, c the working variables.
Measured(precision, convT, convP, c) ==
    /\ temperature_actual' = c.temp_calc
    /\ pressure_actual' = c.pressure_calc
    /\ bus' = convT.bus \o convP.bus
    /\ rxBuffer' = <<>>
    /\ call' = Called("getMeasurements", <<precision>>,
                      <<convT.result, convP.result>>, c)
    /\ UNCHANGED <<i2cPort, address, coefficient, prom, platform, shortReads, memo>>

\* Compensate, evaluated once for each input of this specification.
MeasurementsTable ==
    [build \in Builds |-> [image \in Calibrations |->
        [pressure_raw \in PressureCodes |-> [temperature_raw \in TemperatureCodes |->
            Compensate([i \in 0..7 |-> image[i + 1]], pressure_raw,
                       temperature_raw, build)]]]]

MeasuredFrom(precision, convT, convP) ==
    Measured(precision, convT, convP,
             MeasurementsTable[platform][prom][convP.result][convT.result])

\* getMeasurements(_precision)
GetMeasurements ==
    \E precision \in Precisions,
       codeT \in TemperatureCodes, codeP \in PressureCodes :
        MeasuredFrom(precision,
                     getADCconversion(i2cPort, address, TEMPERATURE, precision,
                                      BytesOf(codeT, 3)),
                     getADCconversion(i2cPort, address, PRESSURE, precision,
                                      BytesOf(codeP, 3)))

NextMeasurements == GetMeasurements

SpecMeasurements == InitMeasurements /\ [][NextMeasurements]_vars

----------------------------------------------------------------------------
(* Reading the working variables of the latest getMeasurements() call.     *)

MeasurementsCall == call.name = "getMeasurements"

\* v * v, exactly
Squared(v) == BigMul(Big(v), Big(v))

\* The second-order terms of the documented formulas for a first-order
\* temperature TEMP, exactly.
ExactOFF2(TEMP) ==
    IF TEMP >= 2000 THEN BigDivPow2(Squared(TEMP - 2000), 4)
    ELSE IF TEMP >= -1500 THEN BigDivPow2(BigMul(Big(3), Squared(TEMP - 2000)), 1)
    ELSE BigAdd(BigDivPow2(BigMul(Big(3), Squared(TEMP - 2000)), 1),
                BigMul(Big(7), Squared(TEMP + 1500)))

ExactSENS2(TEMP) ==
    IF TEMP >= 2000 THEN Big(0)
    ELSE IF TEMP >= -1500 THEN BigDivPow2(BigMul(Big(5), Squared(TEMP - 2000)), 3)
    ELSE BigAdd(BigDivPow2(BigMul(Big(5), Squared(TEMP - 2000)), 3),
                BigMul(Big(4), Squared(TEMP + 1500)))

----------------------------------------------------------------------------
(* C11: for every calibration and pair of raw codes, OFF2 and SENS2 as     *)
(* getMeasurements() computes them equal the exact values of the           *)
(* documented formulas for the first-order temperature: no product wraps   *)
(* at 32 bits.                                                             *)

C11_SecondOrderExact ==
    MeasurementsCall =>
        /\ call.ret.OFF2 = ExactOFF2(call.ret.temp_first)
        /\ call.ret.SENS2 = ExactSENS2(call.ret.temp_first)

\* A call whose squared difference exceeds 32 bits.
C11_Witness ==
    /\ MeasurementsCall
    /\ call.ret.temp_first < -60000

\* What does hold: the terms are exact on the builds that keep the product
\* of two int32_t operands whole, and whenever the squared difference and
\* its multiples fit in 32 bits.
C11_ExactWhenProductsFit ==
    (MeasurementsCall /\ (platform.overflow = "wide"
                          \/ call.ret.temp_first \in -18724..48340)) =>
        /\ call.ret.OFF2 = ExactOFF2(call.ret.temp_first)
        /\ call.ret.SENS2 = ExactSENS2(call.ret.temp_first)

----------------------------------------------------------------------------
(* C12: when the first-order temperature is exactly 2000 the branch for    *)
(* TEMP >= 2000 is taken: SENS2 = 0, OFF2 = 0 and T2 is 7 * dT * dT        *)
(* divided by 2^37, the integer quotient.                                  *)

\* 7 * (dT * dT) / 2^37, exactly
ExactT2Warm(dT) == BigDivPow2(BigMul(Big(7), Squared(dT)), 37)

C12_WarmAt2000 ==
    (MeasurementsCall /\ call.ret.temp_first = 2000) =>
        /\ call.ret.SENS2 = Big(0)
        /\ call.ret.OFF2 = Big(0)
        /\ call.ret.T2 = ExactT2Warm(call.ret.dT)

\* A call at exactly 2000 whose dT and T2 are not zero.
C12_Witness ==
    /\ MeasurementsCall
    /\ call.ret.temp_first = 2000
    /\ call.ret.dT < 0
    /\ call.ret.T2 # Big(0)

\* What does hold: at exactly 2000 OFF2 and SENS2 are zero on every build,
\* and T2 is the integer quotient where double has a 53-bit significand.
C12_BranchAt2000 ==
    (MeasurementsCall /\ call.ret.temp_first = 2000) =>
        /\ call.ret.SENS2 = Big(0)
        /\ call.ret.OFF2 = Big(0)
        /\ platform.mantissa = 53 => call.ret.T2 = ExactT2Warm(call.ret.dT)

----------------------------------------------------------------------------
(* C13: below 2000, the extra correction 7 * (TEMP + 1500)^2 to OFF2 and   *)
(* 4 * (TEMP + 1500)^2 to SENS2 is added exactly when the first-order      *)
(* TEMP is below -1500: OFF2 and SENS2 are the first terms alone from      *)
(* -1500 up, and the first terms plus the correction from -1501 down (on   *)
(* a build whose int32_t products wrap, as far down as they fit 32 bits).  *)

\* The terms of the TEMP < 2000 branch without the extra correction, for a
\* TEMP whose products fit 32 bits.
ColdOFF2(TEMP) == Big((3 * ((TEMP - 2000) * (TEMP - 2000))) \div 2)

ColdSENS2(TEMP) == Big((5 * ((TEMP - 2000) * (TEMP - 2000))) \div 8)

C13_StrictlyBelowMinus1500 ==
    (MeasurementsCall /\ call.ret.temp_first < 2000) =>
        IF call.ret.temp_first >= -1500
        THEN /\ call.ret.OFF2 = ColdOFF2(call.ret.temp_first)
             /\ call.ret.SENS2 = ColdSENS2(call.ret.temp_first)
        ELSE IF call.ret.temp_first >= -18724
        THEN /\ call.ret.OFF2 =
                    BigAdd(ColdOFF2(call.ret.temp_first),
                           Big(7 * ((call.ret.temp_first + 1500)
                                    * (call.ret.temp_first + 1500))))
             /\ call.ret.SENS2 =
                    BigAdd(ColdSENS2(call.ret.temp_first),
                           Big(4 * ((call.ret.temp_first + 1500)
                                    * (call.ret.temp_first + 1500))))
        ELSE platform.overflow = "wide" =>
                /\ call.ret.OFF2 = ExactOFF2(call.ret.temp_first)
                /\ call.ret.SENS2 = ExactSENS2(call.ret.temp_first)

\* A call at -1501, where the correction is 7 and 4.
C13_Witness ==
    /\ MeasurementsCall
    /\ call.ret.temp_first = -1501
    /\ call.ret.OFF2 = BigAdd(ColdOFF2(-1501), Big(7))
    /\ call.ret.SENS2 = BigAdd(ColdSENS2(-1501), Big(4))

\* A call at -1500, without the correction.
C13_WitnessAtMinus1500 ==
    /\ MeasurementsCall
    /\ call.ret.temp_first = -1500
    /\ call.ret.OFF2 = ColdOFF2(-1500)

----------------------------------------------------------------------------
(* C14: when the raw temperature code equals coefficient[5] << 8, so that  *)
(* dT = 0, the stored temperature is exactly 2000, T2 = OFF2 = SENS2 = 0,  *)
(* and the stored pressure is                                              *)
(* ((((coefficient[1] << 15) * D1) / 2097152) - (coefficient[2] << 16))    *)
(* / 32768, for every calibration and raw pressure code D1.                *)

\* The pressure of the first-order terms alone.
UncorrectedPressure(coef, D1) ==
    BigDivPow2(BigSub(BigDivPow2(BigMul(BigShl(Big(coef[1]), 15), Big(D1)), 21),
                      BigShl(Big(coef[2]), 16)),
               15)

C14_ZeroDeltaT ==
    (MeasurementsCall /\ call.raw[1] = coefficient[5] * 256) =>
        /\ temperature_actual = 2000
        /\ call.ret.T2 = Big(0)
        /\ call.ret.OFF2 = Big(0)
        /\ call.ret.SENS2 = Big(0)
        /\ Big(pressure_actual) = UncorrectedPressure(coefficient, call.raw[2])

\* Such a call on a part whose word 5 is not zero, with a pressure stored.
C14_Witness ==
    /\ MeasurementsCall
    /\ coefficient[5] = 30000
    /\ call.raw = <<7680000, 11259375>>
    /\ pressure_actual > 0

----------------------------------------------------------------------------
(* C15: the stored pressure is (((SENS * D1) / 2097152) - OFF) / 32768,    *)
(* both divisions truncating toward zero, where                            *)
(* OFF = (coefficient[2] << 16) + ((coefficient[4] * dT) >> 7) - OFF2 and  *)
(* SENS = (coefficient[1] << 15) + ((coefficient[3] * dT) >> 8) - SENS2,   *)
(* the shifts flooring; the value stored is the whole quotient, not its    *)
(* low 32 bits.                                                            *)

\* x - q * 2^n
Remainder(q, x, n) == BigSub(x, BigShl(q, n))

RemainderFloors(r, n) == ~r.neg /\ MagLess(r.mag, MagShl(<<1>>, n))

RemainderTruncates(r, x, n) ==
    /\ MagLess(r.mag, MagShl(<<1>>, n))
    /\ r.mag = <<>> \/ r.neg = x.neg

\* q = x >> n, the flooring shift
IsShifted(q, x, n) == RemainderFloors(Remainder(q, x, n), n)

\* q = x / 2^n, truncating toward zero
IsQuotient(q, x, n) == RemainderTruncates(Remainder(q, x, n), x, n)

\* P is the documented expression of SENS, OFF and D1, inner being its
\* first quotient.
IsPressureWith(P, inner, SENS, OFF, D1) ==
    /\ IsQuotient(inner, BigMul(SENS, Big(D1)), 21)
    /\ IsQuotient(P, BigSub(inner, OFF), 15)

IsPressure(P, SENS, OFF, D1) ==
    IsPressureWith(P, BigDivPow2(BigMul(SENS, Big(D1)), 21), SENS, OFF, D1)

C15_PressureFormula ==
    MeasurementsCall =>
        /\ IsShifted(BigSub(BigAdd(call.ret.OFF, call.ret.OFF2),
                            BigShl(Big(coefficient[2]), 16)),
                     BigMul(Big(coefficient[4]), Big(call.ret.dT)), 7)
        /\ IsShifted(BigSub(BigAdd(call.ret.SENS, call.ret.SENS2),
                            BigShl(Big(coefficient[1]), 15)),
                     BigMul(Big(coefficient[3]), Big(call.ret.dT)), 8)
        /\ IsPressure(Big(pressure_actual), call.ret.SENS, call.ret.OFF, call.raw[2])

\* A call whose pressure is negative and whose quotients are not exact, at
\* the cold end, where SENS2 and OFF2 are largest.
C15_Witness ==
    /\ MeasurementsCall
    /\ call.ret.temp_first < -100000
    /\ pressure_actual < -1000000
    /\ Remainder(call.ret.P,
                 BigSub(BigDivPow2(BigMul(call.ret.SENS, Big(call.raw[2])), 21),
                        call.ret.OFF), 15).mag # <<>>

----------------------------------------------------------------------------
(* C16: a call of getTemperature() or getPressure(), with the              *)
(* getMeasurements() and getADCconversion() calls it makes, leaves the     *)
(* coefficients, the address and the transport binding as they were; so    *)
(* after any number of such calls the coefficients are those the latest    *)
(* begin() loaded.                                                         *)

C16_AccessorsKeepCalibration ==
    [][ call'.name \in Getters =>
            UNCHANGED <<coefficient, address, i2cPort>> ]_vars

\* A getter has run on a driver begun at the other address, and the
\* coefficients that begin() loaded are in place.
C16_Witness ==
    /\ BoundGetterCall
    /\ address = ADDRESS_LOW
    /\ \A i \in 1..6 : coefficient[i] = prom[i + 1]
    /\ call.raw[1] = 7680000

----------------------------------------------------------------------------
(* C17: in the bus log of every call, each command is a frame of           *)
(* beginTransmission, one write, endTransmission, in that order and next   *)
(* to each other, so that frames do not nest and no request or read falls  *)
(* inside one; and every beginTransmission and every requestFrom targets   *)
(* the driver's address, in begin(wirePort, address) the address just      *)
(* given, from the reset on.                                               *)

OpAt(log, i) == IF i \in DOMAIN log THEN log[i].op ELSE "none"

Framed(log) ==
    \A i \in DOMAIN log :
        /\ log[i].op = "beginTransmission" =>
               OpAt(log, i + 1) = "write" /\ OpAt(log, i + 2) = "endTransmission"
        /\ log[i].op = "write" =>
               OpAt(log, i - 1) = "beginTransmission"
        /\ log[i].op = "endTransmission" =>
               OpAt(log, i - 1) = "write"

Addressed(log, addr) ==
    \A i \in DOMAIN log :
        log[i].op \in {"beginTransmission", "requestFrom"} => log[i].a = addr

C17_FramedAndAddressed ==
    /\ Framed(bus)
    /\ Addressed(bus, address)

\* begin(wirePort, address) has moved the driver to the other address and
\* its reset and PROM reads are in the log.
C17_Witness ==
    /\ call.name = "begin(wirePort, address)"
    /\ address = ADDRESS_LOW
    /\ bus[1] = Ev("beginTransmission", ADDRESS_LOW, 0)
    /\ Requests(bus) # <<>>
    /\ Len(Written(bus)) = 9

====
